---------------------------- MODULE Spec2Model ----------------------------
(***************************************************************************)
(* Post-training quantizer (PtqQuantizer) of                               *)
(* nni/compression/pytorch/quantization/ptq_quantizer.py:                  *)
(* the quantization-parameter solver (calculate_qparams), the              *)
(* fake-quantizer (_quantize), the range collector (max_min_collector)     *)
(* and the compress / export_model pipeline.                               *)
(*                                                                         *)
(* Tensor values are exact rationals <<n, d>> (d > 0, lowest terms);       *)
(* +inf and -inf are <<1, 0>> and <<-1, 0>>.  float32 rounding of the      *)
(* individual operations is not modelled: every operation is the exact     *)
(* rational one.  Integers (qmin, qmax, zero_point) are plain integers.    *)
(***************************************************************************)
EXTENDS Integers, Sequences, FiniteSets, TLC

VARIABLES
    cfg,                \* layer -> its config_list entry (fixed at construction)
    bn,                 \* layer -> parameters of its batch-norm (wrapper.bn_module)
    weight, bias,       \* layer -> module.weight (a tensor), module.bias
    attrs,              \* layer -> the attributes attached to the module
    buffer,             \* layer -> the collector's buffer list
    bound_model,        \* self.bound_model is not None
    evaluator,          \* self.evaluator is not None
    bound,              \* the evaluator has the model bound
    hooks,              \* layers whose collector hook is registered
    compressed,         \* self.compressed
    wrapped,            \* the model still carries the module wrappers
    pc,                 \* position of compress
    err,                \* the error compress ended with
    cursor,             \* index of the next layer the solving loop visits
    quant_result_conf,  \* the dictionary compress builds and returns
    ret,                \* the call that has just returned: arguments and result
    weight0, bias0,     \* history: weight and bias before any fold
    seen,               \* history: the values delivered in non-empty tracked batches
    trace               \* history: the steps of compress taken so far

vars == <<cfg, bn, weight, bias, attrs, buffer, bound_model, evaluator,
          bound, hooks, compressed, wrapped, pc, err, cursor,
          quant_result_conf, ret, weight0, bias0, seen, trace>>

pipeline == <<cfg, bn, weight, bias, attrs, buffer, bound_model, evaluator,
              bound, hooks, compressed, wrapped, pc, err, cursor,
              quant_result_conf, weight0, bias0, seen, trace>>

-----------------------------------------------------------------------------
(* Exact arithmetic on tensor elements                                     *)

Abs(n) == IF n < 0 THEN -n ELSE n

RECURSIVE GCD(_, _)
GCD(a, b) == IF b = 0 THEN a ELSE GCD(b, a % b)

PosInf == <<1, 0>>
NegInf == <<-1, 0>>

IsInf(a) == a[2] = 0

\* n/d in lowest terms with a positive denominator
Rat(n, d) ==
    LET s == IF d < 0 THEN -1 ELSE 1
        g == GCD(Abs(n), Abs(d))
    IN  <<(s * n) \div g, (s * d) \div g>>

FromInt(k) == <<k, 1>>

Zero == FromInt(0)

Add(a, b) == Rat(a[1] * b[2] + b[1] * a[2], a[2] * b[2])

Sub(a, b) == Rat(a[1] * b[2] - b[1] * a[2], a[2] * b[2])

Mul(a, b) == Rat(a[1] * b[1], a[2] * b[2])

\* a / b for b # 0
Div(a, b) == Rat(a[1] * b[2], a[2] * b[1])

Neg(a) == <<-a[1], a[2]>>

\* a <= b on the extended rationals
Leq(a, b) ==
    IF a = NegInf \/ b = PosInf THEN TRUE
    ELSE IF a = PosInf \/ b = NegInf THEN FALSE
    ELSE a[1] * b[2] <= b[1] * a[2]

Lt(a, b) == ~Leq(b, a)

\* torch.min / torch.max of two scalars
RMin(a, b) == IF Leq(a, b) THEN a ELSE b

RMax(a, b) == IF Leq(a, b) THEN b ELSE a

\* torch.round: to the nearest integer, ties to the even one
Round(a) ==
    LET f == a[1] \div a[2]
        r == a[1] % a[2]
    IN  IF 2 * r < a[2] THEN f
        ELSE IF 2 * r > a[2] THEN f + 1
        ELSE IF f % 2 = 0 THEN f ELSE f + 1

\* torch.clamp(x, lo, hi) = min(max(x, lo), hi)
Clamp(x, lo, hi) == RMin(RMax(x, lo), hi)

ClampInt(k, lo, hi) ==
    LET m == IF k < lo THEN lo ELSE k
    IN  IF m > hi THEN hi ELSE m

\* torch.finfo(torch.float32).eps = 2^-23
EpsDen == 8388608

eps == <<1, EpsDen>>

-----------------------------------------------------------------------------
(* Quantization schemes and dtypes (QuantScheme, QuantDtype)               *)

QuantScheme == {"PER_TENSOR_AFFINE", "PER_TENSOR_SYMMETRIC",
                "PER_CHANNEL_AFFINE", "PER_CHANNEL_SYMMETRIC"}

QuantDtype == {"INT", "UINT"}

SymmetricSchemes == {"PER_TENSOR_SYMMETRIC", "PER_CHANNEL_SYMMETRIC"}

RECURSIVE Pow2(_)
Pow2(b) == IF b = 0 THEN 1 ELSE 2 * Pow2(b - 1)

\* LayerQuantSetting: the integer range derived from bits and dtype
\* (signed: [-2^(bits-1), 2^(bits-1) - 1]; unsigned: [0, 2^bits - 1])
get_min_max_value(bits, quant_dtype) ==
    IF quant_dtype = "INT"
    THEN [qmin |-> -Pow2(bits - 1), qmax |-> Pow2(bits - 1) - 1]
    ELSE [qmin |-> 0, qmax |-> Pow2(bits) - 1]

-----------------------------------------------------------------------------
(* calculate_qparams                                                       *)

\* symmetric: scale = vmax_pos / (float(qmax - qmin) / 2), floored at eps
SymmetricScale_NoEps(vmax_pos, qmin, qmax) ==
    Div(vmax_pos, Rat(qmax - qmin, 2))

SymmetricScale_NoHalf(vmax_pos, qmin, qmax) ==
    RMax(Div(vmax_pos, FromInt(qmax - qmin)), eps)

SymmetricScale(vmax_pos, qmin, qmax) ==
    RMax(Div(vmax_pos, Rat(qmax - qmin, 2)), eps)

\* affine: scale = (vmax_pos - vmin_neg) / float(qmax - qmin), floored at eps
AffineScale(vmin_neg, vmax_pos, qmin, qmax) ==
    RMax(Div(Sub(vmax_pos, vmin_neg), FromInt(qmax - qmin)), eps)

\* symmetric: zero_point stays 0, or qmax // 2 for an unsigned dtype
SymmetricZeroPoint_NoUint(qmax, qdtype) == 0

SymmetricZeroPoint(qmax, qdtype) ==
    IF qdtype = "UINT" THEN qmax \div 2 ELSE 0

\* affine: qmin - round(vmin_neg / scale), clamped into [qmin, qmax]
AffineZeroPoint_Plus(vmin_neg, scale, qmin, qmax) ==
    ClampInt(qmin + Round(Div(vmin_neg, scale)), qmin, qmax)

AffineZeroPoint(vmin_neg, scale, qmin, qmax) ==
    ClampInt(qmin - Round(Div(vmin_neg, scale)), qmin, qmax)

\* assert torch.all(vmin <= vmax)
RangeOk_NoAssert(vmin, vmax) == TRUE

RangeOk(vmin, vmax) == Leq(vmin, vmax)

calculate_qparams(vmin, vmax, qmin, qmax, qscheme, qdtype) ==
    IF ~RangeOk(vmin, vmax)
    THEN [ok |-> FALSE, error |-> "InvalidRangeError"]
    ELSE
      LET vmin_neg == RMin(vmin, Zero)
          vmax_pos == RMax(vmax, Zero)
      IN  IF qscheme \in SymmetricSchemes
          THEN LET vm == RMax(Neg(vmin_neg), vmax_pos)
                   scale == SymmetricScale(vm, qmin, qmax)
               IN  [ok |-> TRUE, scale |-> scale,
                    zero_point |-> SymmetricZeroPoint(qmax, qdtype)]
          ELSE LET scale == AffineScale(vmin_neg, vmax_pos, qmin, qmax)
               IN  [ok |-> TRUE, scale |-> scale,
                    zero_point |-> AffineZeroPoint(vmin_neg, scale, qmin, qmax)]

-----------------------------------------------------------------------------
(* PtqQuantizer._quantize, on one element and on a tensor                  *)

Dequantize_WrongSign(q, scale, zero_point) ==
    Mul(FromInt(q + zero_point), scale)

\* x = (x - zero_point) * scale
Dequantize(q, scale, zero_point) == Mul(FromInt(q - zero_point), scale)

_quantize(x, scale, zero_point, qmin, qmax) ==
    LET x1 == Add(Div(x, scale), FromInt(zero_point))
        x2 == Clamp(x1, FromInt(qmin), FromInt(qmax))
        x3 == Round(x2)
    IN  Dequantize(x3, scale, zero_point)

QuantizeTensor(t, scale, zero_point, qmin, qmax) ==
    [i \in DOMAIN t |-> _quantize(t[i], scale, zero_point, qmin, qmax)]

-----------------------------------------------------------------------------
(* Bounds of the checked input space                                       *)

\* tensor elements are k/2 for k in -MaxVal..MaxVal
MaxVal == 4

\* bit widths 1..MaxBits (and 8)
MaxBits == 3

\* scales handed to _quantize directly: eps and k/4 for k in 1..MaxScaleNum
MaxScaleNum == 5

\* integer bounds and zero points handed to _quantize directly: -MaxQ..MaxQ
MaxQ == 2

Vals == {Rat(k, 2) : k \in -MaxVal..MaxVal}

Bits == (1..MaxBits) \cup {8}

Scales == {eps} \cup {Rat(k, 4) : k \in 1..MaxScaleNum}

QInts == -MaxQ..MaxQ

NoCall == [op |-> "none"]

-----------------------------------------------------------------------------
(* The model under compression: layers, configs, settings, buffers         *)

\* get_modules_to_compress(): the selected layers, in order
LayerSeq == <<"conv", "fc">>

Layers == {LayerSeq[i] : i \in DOMAIN LayerSeq}

QuantTypes == {"weight", "input", "output"}

Config(types, bits, scheme, dtype) ==
    [quant_types |-> types, quant_bits |-> bits, quant_scheme |-> scheme,
     quant_dtype |-> dtype]

\* a batch-norm folded into the layer before it: gamma is
\* bn.weight / sqrt(running_var + eps); no batch-norm is [present |-> FALSE]
NoBn == [present |-> FALSE]

SomeBn == [present |-> TRUE, gamma |-> FromInt(2), mean |-> FromInt(1),
           beta |-> Rat(1, 2)]

SomeWeight == <<FromInt(-2), FromInt(1), Rat(1, 2)>>

ZeroWeight == <<Zero, Zero, Zero>>

\* the models (config list, batch-norms, weights) a quantizer is built on
Models ==
    { [cfg |-> [conv |-> Config({"weight"}, 8, "PER_TENSOR_SYMMETRIC", "INT"),
                fc   |-> Config({"input", "output"}, 8, "PER_TENSOR_AFFINE",
                                "UINT")],
       bn |-> [conv |-> SomeBn, fc |-> NoBn],
       weight |-> [conv |-> SomeWeight, fc |-> ZeroWeight]],
      [cfg |-> [conv |-> Config({"weight", "input"}, 2, "PER_CHANNEL_AFFINE",
                                "INT"),
                fc   |-> Config({}, 8, "PER_TENSOR_AFFINE", "UINT")],
       bn |-> [conv |-> NoBn, fc |-> SomeBn],
       weight |-> [conv |-> SomeWeight, fc |-> SomeWeight]],
      [cfg |-> [conv |-> Config({"output"}, 3, "PER_TENSOR_SYMMETRIC", "UINT"),
                fc   |-> Config({"weight", "input", "output"}, 2,
                                "PER_CHANNEL_SYMMETRIC", "INT")],
       bn |-> [conv |-> NoBn, fc |-> NoBn],
       weight |-> [conv |-> ZeroWeight, fc |-> SomeWeight]] }

\* LayerQuantSetting(config): one TensorQuantSetting per active quant type
TensorQuantSetting(config, t) ==
    IF t \in config.quant_types
    THEN LET r == get_min_max_value(config.quant_bits, config.quant_dtype)
         IN  [active |-> TRUE, qmin |-> r.qmin, qmax |-> r.qmax,
              bits |-> config.quant_bits,
              quant_scheme |-> config.quant_scheme,
              quant_dtype |-> config.quant_dtype]
    ELSE [active |-> FALSE]

LayerQuantSetting(config) ==
    [t \in QuantTypes |-> TensorQuantSetting(config, t)]

\* module attributes are a function from the attribute names present
\* (hasattr) to their values
HasAttr(a, name) == name \in DOMAIN a

SetAttr(a, name, v) ==
    [n \in DOMAIN a \cup {name} |-> IF n = name THEN v ELSE a[n]]

DelAttrs(a, names) == [n \in DOMAIN a \ names |-> a[n]]

NoAttrs == [n \in {} |-> 0]

\* the four buffers registered for one quant type
TypeBuffers(setting, t) ==
    [n \in {t \o "_qmax", t \o "_qmin", t \o "_scale", t \o "_zero_point"} |->
        IF n = t \o "_qmax" THEN setting[t].qmax
        ELSE IF n = t \o "_qmin" THEN setting[t].qmin
        ELSE IF n = t \o "_scale" THEN FromInt(1)
        ELSE 0]

Merge(f, g) ==
    [n \in DOMAIN f \cup DOMAIN g |-> IF n \in DOMAIN g THEN g[n] ELSE f[n]]

\* _prepare_buffers_for_quant, for one layer
PrepareBuffers(config) ==
    LET setting == LayerQuantSetting(config)
        w == IF "weight" \in config.quant_types
             THEN TypeBuffers(setting, "weight") ELSE NoAttrs
        i == IF "input" \in config.quant_types
             THEN TypeBuffers(setting, "input") ELSE NoAttrs
        o == IF "output" \in config.quant_types
             THEN TypeBuffers(setting, "output") ELSE NoAttrs
    IN  SetAttr(Merge(Merge(w, i), o), "layer_quant_setting", setting)

\* old_bn_weight / old_bn_bias are registered from module.weight.data and
\* module.bias.data: tensors that share the storage of the live weight and
\* bias, so their value is whatever the live tensor holds
AliasOf(field) == [alias_of |-> field]

\* the state PtqQuantizer.__init__ is called in: a model in evaluation
\* mode (bn: the batch-norm that follows each layer), its config list, and
\* no quantizer yet
Init ==
    /\ \E m \in Models : cfg = m.cfg /\ bn = m.bn /\ weight = m.weight
    /\ bias = [l \in Layers |-> FromInt(1)]
    /\ attrs = [l \in Layers |-> NoAttrs]
    /\ buffer = [l \in Layers |-> <<>>]
    /\ bound_model = FALSE
    /\ evaluator = FALSE
    /\ bound = FALSE
    /\ hooks = {}
    /\ compressed = FALSE
    /\ wrapped = FALSE
    /\ pc = "new"
    /\ err = "none"
    /\ cursor = 1
    /\ quant_result_conf = NoAttrs
    /\ ret = NoCall
    /\ weight0 = weight
    /\ bias0 = bias
    /\ seen = [l \in Layers |-> [input |-> {}, output |-> {}]]
    /\ trace = <<>>

-----------------------------------------------------------------------------
(* Construction                                                            *)

DummyInputOk_NoCheck(op_folding, has_dummy_input) == TRUE

\* lines 97-102: op_folding needs evaluator.get_dummy_input() to be given
DummyInputOk(op_folding, has_dummy_input) ==
    ~op_folding \/ has_dummy_input

\* PtqQuantizer.__init__(model, config_list, evaluator, op_folding), with
\* evaluator.get_dummy_input() returning a sample or None.  The base class
\* wraps the selected layers and, given a dummy input, finds the batch-norm
\* folded into each (without one, no wrapper has a bn_module).
Construct(op_folding, has_dummy_input) ==
    /\ pc = "new" /\ ret = NoCall
    /\ IF DummyInputOk(op_folding, has_dummy_input)
       THEN /\ bn' = IF op_folding THEN bn ELSE [l \in Layers |-> NoBn]
            /\ wrapped' = TRUE
            /\ bound_model' = TRUE
            /\ evaluator' = TRUE
            /\ attrs' = [l \in Layers |-> PrepareBuffers(cfg[l])]
            /\ pc' = "ready"
            /\ UNCHANGED err
       ELSE /\ pc' = "init_failed"
            /\ err' = "MissingDummyInputError"
            /\ UNCHANGED <<bn, wrapped, bound_model, evaluator, attrs>>
    /\ ret' = [op |-> "__init__", op_folding |-> op_folding,
               dummy_input |-> has_dummy_input]
    /\ UNCHANGED <<cfg, weight, bias, buffer, bound, hooks, compressed,
                   cursor, quant_result_conf, weight0, bias0, seen, trace>>

PtqQuantizer__init__ == \E op_folding \in BOOLEAN, has_dummy_input \in BOOLEAN :
            Construct(op_folding, has_dummy_input)

\* the caller clears a reference of the quantizer before compress (the
\* case the asserts of lines 185-186 guard against)
ClearReference ==
    /\ pc = "ready" /\ wrapped /\ ret = NoCall
    /\ bound_model /\ evaluator
    /\ \/ bound_model' = FALSE /\ UNCHANGED evaluator
       \/ evaluator' = FALSE /\ UNCHANGED bound_model
    /\ UNCHANGED <<cfg, bn, weight, bias, attrs, buffer, bound, hooks,
                   compressed, wrapped, pc, err, cursor, quant_result_conf,
                   ret, weight0, bias0, seen, trace>>

-----------------------------------------------------------------------------
(* compress: batch-norm fold, bind, calibration                            *)

ConfigAsserts_ModelOnly == bound_model

\* assert self.bound_model is not None and self.config_list is not None
\* assert self.evaluator is not None
ConfigAsserts == bound_model /\ evaluator

\* compress called on a quantizer whose bound model or evaluator is None
CompressNotConfigured ==
    /\ pc = "ready" /\ wrapped /\ ret = NoCall
    /\ ~ConfigAsserts
    /\ pc' = "failed"
    /\ err' = "NotConfiguredError"
    /\ UNCHANGED <<cfg, bn, weight, bias, attrs, buffer, bound_model,
                   evaluator, bound, hooks, compressed, wrapped, cursor,
                   quant_result_conf, ret, weight0, bias0, seen, trace>>

Setting(l) == attrs[l]["layer_quant_setting"]

\* Quantizer._fold_bn: the batch-norm merged into weight and bias
_fold_bn(bn_module, w, b) ==
    [weight |-> [i \in DOMAIN w |-> Mul(w[i], bn_module.gamma)],
     bias   |-> Add(Mul(Sub(b, bn_module.mean), bn_module.gamma),
                    bn_module.beta)]

\* _oneshot_fold_bn: weight and bias are overwritten with the folded values,
\* then old_bn_weight / old_bn_bias are registered from the (already
\* overwritten) module.weight.data / module.bias.data
OneshotFoldBn ==
    /\ pc = "ready" /\ wrapped /\ ret = NoCall
    /\ ConfigAsserts
    /\ weight' = [l \in Layers |->
                    IF bn[l].present
                    THEN _fold_bn(bn[l], weight[l], bias[l]).weight
                    ELSE weight[l]]
    /\ bias' = [l \in Layers |->
                    IF bn[l].present
                    THEN _fold_bn(bn[l], weight[l], bias[l]).bias
                    ELSE bias[l]]
    /\ attrs' = [l \in Layers |->
                    IF bn[l].present
                    THEN SetAttr(SetAttr(attrs[l], "old_bn_weight",
                                         AliasOf("weight")),
                                 "old_bn_bias", AliasOf("bias"))
                    ELSE attrs[l]]
    /\ pc' = "folded"
    /\ trace' = Append(trace, "fold")
    /\ UNCHANGED <<cfg, bn, buffer, bound_model, evaluator, bound, hooks,
                   compressed, wrapped, err, cursor, quant_result_conf, ret,
                   weight0, bias0, seen>>

\* self.evaluator.bind_model(self.bound_model)
BindModel ==
    /\ pc = "folded"
    /\ bound' = TRUE
    /\ pc' = "bound"
    /\ trace' = Append(trace, "bind")
    /\ UNCHANGED <<bound_model, evaluator, cfg, bn, weight, bias, attrs,
                   buffer, hooks, compressed, wrapped, err, cursor,
                   quant_result_conf, ret, weight0, bias0, seen>>

collect_input(l) == Setting(l)["input"].active

collect_output_Always(l) == TRUE

collect_output(l) == Setting(l)["output"].active

FreshBuffer_Zero == <<Zero, Zero, Zero, Zero>>

\* max_min_collector: the buffer a collector starts from
FreshBuffer == <<PosInf, NegInf, PosInf, NegInf>>

\* _prepare_data_collectors and the start of data_collector.collect: a
\* collector, with a fresh buffer, is hooked on every layer that tracks its
\* input or its output
PrepareDataCollectors ==
    /\ pc = "bound"
    /\ hooks' = {l \in Layers : collect_input(l) \/ collect_output(l)}
    /\ buffer' = [l \in Layers |->
                    IF collect_input(l) \/ collect_output(l)
                    THEN FreshBuffer ELSE buffer[l]]
    /\ pc' = "calibrating"
    /\ trace' = Append(trace, "calibrate")
    /\ UNCHANGED <<cfg, bn, weight, bias, attrs, bound_model, evaluator,
                   bound, compressed, wrapped, err, cursor,
                   quant_result_conf, ret, weight0, bias0, seen>>

\* the values of calibration batches, and the batches (tensors of 0..2
\* elements) the evaluator delivers
CalVals == {FromInt(-1), Zero, FromInt(2)}

Tensors ==
    {<<>>} \cup {<<a>> : a \in CalVals} \cup {<<a, b>> : a, b \in CalVals}

\* an output that is not a tensor (isinstance(output, torch.Tensor) fails);
\* the marker <<0, 0>> is no value of a tensor element
NotATensor == <<<<0, 0>>>>

\* the input tuples a hook is called with: one tensor, none, or two
InputTuples ==
    {<<>>} \cup {<<t>> : t \in Tensors} \cup {<<t, t>> : t \in Tensors}

Elements(t) == {t[i] : i \in DOMAIN t}

\* torch.aminmax of a non-empty tensor
TMin(t) == CHOOSE a \in Elements(t) : \A b \in Elements(t) : Leq(a, b)

TMax(t) == CHOOSE a \in Elements(t) : \A b \in Elements(t) : Leq(b, a)

numel(t) == Len(t)

CollectAssert_AtLeastOne(_input, output) ==
    Len(_input) >= 1 /\ output # NotATensor

\* assert len(_input) == 1 and isinstance(output, torch.Tensor)
CollectAssert(_input, output) == Len(_input) = 1 /\ output # NotATensor

CollectUpdate_Overwrite(buf, cin, cout, _input, output) ==
    LET b1 == IF cin /\ numel(_input[1]) # 0
              THEN [buf EXCEPT ![1] = TMin(_input[1]),
                               ![2] = TMax(_input[1])]
              ELSE buf
    IN  IF cout /\ numel(output) # 0
        THEN [b1 EXCEPT ![3] = TMin(output), ![4] = TMax(output)]
        ELSE b1

CollectUpdate_IgnoreFlags(buf, cin, cout, _input, output) ==
    LET b1 == IF numel(_input[1]) # 0
              THEN [buf EXCEPT ![1] = RMin(TMin(_input[1]), buf[1]),
                               ![2] = RMax(TMax(_input[1]), buf[2])]
              ELSE buf
    IN  IF numel(output) # 0
        THEN [b1 EXCEPT ![3] = RMin(TMin(output), b1[3]),
                        ![4] = RMax(TMax(output), b1[4])]
        ELSE b1

\* the body of collect_maxmin after its assert: the new buffer
CollectUpdate(buf, cin, cout, _input, output) ==
    LET b1 == IF cin /\ numel(_input[1]) # 0
              THEN [buf EXCEPT ![1] = RMin(TMin(_input[1]), buf[1]),
                               ![2] = RMax(TMax(_input[1]), buf[2])]
              ELSE buf
    IN  IF cout /\ numel(output) # 0
        THEN [b1 EXCEPT ![3] = RMin(TMin(output), b1[3]),
                        ![4] = RMax(TMax(output), b1[4])]
        ELSE b1

\* what a collector invocation is recorded as (collect_maxmin has no return
\* statement: the forward hook hands back None and the pass keeps its output)
CollectCall(l, _input, output, ok) ==
    [op |-> "collect_maxmin", layer |-> l, ninputs |-> Len(_input),
     in_numel |-> IF Len(_input) >= 1 THEN numel(_input[1]) ELSE 0,
     out_tensor |-> output # NotATensor,
     out_numel |-> IF output # NotATensor THEN numel(output) ELSE 0,
     ok |-> ok, res |-> "None"]

\* collect_maxmin: one invocation of the hook of layer l during the
\* evaluator's prediction pass
CollectMaxmin(l, _input, output) ==
    /\ pc = "calibrating" /\ ret = NoCall
    /\ l \in hooks
    /\ IF CollectAssert(_input, output)
       THEN /\ buffer' = [buffer EXCEPT ![l] =
                    CollectUpdate(buffer[l], collect_input(l),
                                  collect_output(l), _input, output)]
            /\ seen' = [seen EXCEPT
                    ![l].input = IF collect_input(l)
                                 THEN @ \cup Elements(_input[1]) ELSE @,
                    ![l].output = IF collect_output(l)
                                  THEN @ \cup Elements(output) ELSE @]
            /\ ret' = CollectCall(l, _input, output, TRUE)
            /\ UNCHANGED <<pc, err>>
       ELSE /\ pc' = "failed"
            /\ err' = "UnsupportedLayerShapeError"
            /\ ret' = CollectCall(l, _input, output, FALSE)
            /\ UNCHANGED <<buffer, seen>>
    /\ UNCHANGED <<cfg, bn, weight, bias, attrs, bound_model, evaluator,
                   bound, hooks, compressed, wrapped, cursor,
                   quant_result_conf, weight0, bias0, trace>>

Collect ==
    \E l \in Layers, _input \in InputTuples,
       output \in Tensors \cup {NotATensor} :
        CollectMaxmin(l, _input, output)

\* the call recorded in ret returns to its caller
Return ==
    /\ ret # NoCall
    /\ ret' = NoCall
    /\ UNCHANGED pipeline

\* data = data_collector.collect(mode='predict') returns
CollectDone ==
    /\ pc = "calibrating" /\ ret = NoCall
    /\ pc' = "solving"
    /\ trace' = Append(trace, "calibrated")
    /\ UNCHANGED <<cfg, bn, weight, bias, attrs, buffer, bound_model,
                   evaluator, bound, hooks, compressed, wrapped, err, cursor,
                   quant_result_conf, ret, weight0, bias0, seen>>

-----------------------------------------------------------------------------
(* compress: parameter solving                                             *)

\* what the solving loop holds for one layer while it visits it
SolveState(l) ==
    [attrs |-> attrs[l], weight |-> weight[l], conf |-> NoAttrs,
     error |-> "none"]

\* the entry written into quant_result_conf[layer.name][t]
ConfEntry(a, t, qp) ==
    [qmin |-> a[t \o "_qmin"], qmax |-> a[t \o "_qmax"],
     scale |-> qp.scale, zero_point |-> qp.zero_point]

\* module.<t>_scale.copy_(scale); module.<t>_zero_point.copy_(zero_point)
StoreQparams(a, t, qp) ==
    SetAttr(SetAttr(a, t \o "_scale", qp.scale),
            t \o "_zero_point", qp.zero_point)

\* lines 196-213: the weight is solved from its own range and overwritten
\* with its fake-quantized value
SolveWeight(s) ==
    LET setting == s.attrs["layer_quant_setting"]["weight"]
        qp == calculate_qparams(TMin(s.weight), TMax(s.weight),
                                s.attrs["weight_qmin"], s.attrs["weight_qmax"],
                                setting.quant_scheme, setting.quant_dtype)
        a  == StoreQparams(s.attrs, "weight", qp)
    IN  IF s.error # "none" \/ ~setting.active THEN s
        ELSE IF ~qp.ok THEN [s EXCEPT !.error = qp.error]
        ELSE [s EXCEPT
                !.attrs = a,
                !.weight = QuantizeTensor(s.weight, a["weight_scale"],
                                          a["weight_zero_point"],
                                          a["weight_qmin"], a["weight_qmax"]),
                !.conf = SetAttr(s.conf, "weight",
                                 ConfEntry(s.attrs, "weight", qp))]

\* lines 214-235: input (t = "input", vmin, vmax = data[0], data[1]) and
\* output (t = "output", vmin, vmax = data[2], data[3]) are solved from the
\* collected range and stored
SolveActivation(s, t, vmin, vmax) ==
    LET setting == s.attrs["layer_quant_setting"][t]
        qp == calculate_qparams(vmin, vmax,
                                s.attrs[t \o "_qmin"], s.attrs[t \o "_qmax"],
                                setting.quant_scheme, setting.quant_dtype)
    IN  IF s.error # "none" \/ ~setting.active THEN s
        ELSE IF ~qp.ok THEN [s EXCEPT !.error = qp.error]
        ELSE [s EXCEPT
                !.attrs = StoreQparams(s.attrs, t, qp),
                !.conf = SetAttr(s.conf, t, ConfEntry(s.attrs, t, qp))]

\* one iteration of the loop of lines 193-235
SolveLayerResult(l) ==
    LET data == buffer[l]
        s1 == SolveWeight(SolveState(l))
        s2 == IF s1.attrs["layer_quant_setting"]["input"].active
              THEN SolveActivation(s1, "input", data[1], data[2]) ELSE s1
    IN  IF s2.attrs["layer_quant_setting"]["output"].active
        THEN SolveActivation(s2, "output", data[3], data[4]) ELSE s2

\* the solving loop may visit a layer
SolveEnabled_Early == pc \in {"calibrating", "solving"}

SolveEnabled == pc = "solving"

SolveLayer ==
    /\ SolveEnabled /\ ret = NoCall
    /\ cursor <= Len(LayerSeq)
    /\ LET l == LayerSeq[cursor]
           s == SolveLayerResult(l)
       IN  /\ attrs' = [attrs EXCEPT ![l] = s.attrs]
           /\ weight' = [weight EXCEPT ![l] = s.weight]
           /\ quant_result_conf' = SetAttr(quant_result_conf, l, s.conf)
           /\ IF s.error = "none"
              THEN /\ cursor' = cursor + 1
                   /\ trace' = Append(trace, "solve")
                   /\ UNCHANGED <<pc, err>>
              ELSE /\ pc' = "failed"
                   /\ err' = s.error
                   /\ UNCHANGED <<cursor, trace>>
    /\ UNCHANGED <<cfg, bn, bias, buffer, bound_model, evaluator, bound,
                   hooks, compressed, wrapped, ret, weight0, bias0, seen>>

\* the loop is over: self.compressed = True may run
FinishEnabled_Early == pc = "solving"

FinishEnabled == pc = "solving" /\ cursor > Len(LayerSeq)

\* lines 236-239: compressed is set, the evaluator is unbound (which removes
\* the hooks), and the model and quant_result_conf are returned
CompressFinish ==
    /\ FinishEnabled /\ ret = NoCall
    /\ compressed' = TRUE
    /\ bound' = FALSE
    /\ hooks' = {}
    /\ pc' = "done"
    /\ trace' = trace \o <<"compressed", "unbind">>
    /\ ret' = [op |-> "compress", res |-> quant_result_conf]
    /\ UNCHANGED <<bound_model, evaluator, cfg, bn, weight, bias, attrs,
                   buffer, wrapped, err, cursor, quant_result_conf, weight0,
                   bias0, seen>>

-----------------------------------------------------------------------------
(* Forward hooks                                                           *)

\* the values a forward pass hands to the hooks
HookVals == {Rat(-3, 2), Rat(1, 2), FromInt(2)}

\* a forward pass runs outside compress or inside its calibration pass
ForwardPossible == pc \in {"ready", "calibrating", "done", "failed"}

\* the wrapper calls the hook of quant type t only on a wrapped layer whose
\* config lists t
HookCalled(l, t) ==
    wrapped /\ ForwardPossible /\ ret = NoCall /\ t \in cfg[l].quant_types

\* if self.compressed: x = self._quantize(x, module.<t>_scale, ...)
QuantizeHook_Always(l, t, x) ==
    _quantize(x, attrs[l][t \o "_scale"], attrs[l][t \o "_zero_point"],
              attrs[l][t \o "_qmin"], attrs[l][t \o "_qmax"])

QuantizeHook(l, t, x) ==
    IF compressed
    THEN _quantize(x, attrs[l][t \o "_scale"], attrs[l][t \o "_zero_point"],
                   attrs[l][t \o "_qmin"], attrs[l][t \o "_qmax"])
    ELSE x

\* quantize_input(inputs, wrapper)
quantize_input(l, inputs) ==
    /\ HookCalled(l, "input")
    /\ ret' = [op |-> "quantize_input", layer |-> l, arg |-> inputs,
               res |-> QuantizeHook(l, "input", inputs)]
    /\ UNCHANGED pipeline

\* quantize_output(output, wrapper)
quantize_output(l, output) ==
    /\ HookCalled(l, "output")
    /\ ret' = [op |-> "quantize_output", layer |-> l, arg |-> output,
               res |-> QuantizeHook(l, "output", output)]
    /\ UNCHANGED pipeline

QuantizeInput == \E l \in Layers, x \in HookVals : quantize_input(l, x)

QuantizeOutput == \E l \in Layers, x \in HookVals : quantize_output(l, x)

FoldBnHook_Refold(l) ==
    LET folded == _fold_bn(bn[l], weight[l], bias[l])
    IN  [module_weight |-> folded.weight, module_bias |-> folded.bias,
         res |-> <<folded.weight, folded.bias>>]

\* the body of fold_bn after its assert: what the module's weight and bias
\* are afterwards, and what is returned (module.weight, module.bias)
FoldBnHook(l) ==
    [module_weight |-> weight[l], module_bias |-> bias[l],
     res |-> <<weight[l], bias[l]>>]

\* fold_bn(*inputs, wrapper): the wrapper calls it, in a forward pass, for
\* a layer that quantizes its weight and has a batch-norm folded into it
fold_bn(l) ==
    /\ HookCalled(l, "weight") /\ bn[l].present
    /\ IF bound_model
       THEN /\ weight' = [weight EXCEPT ![l] = FoldBnHook(l).module_weight]
            /\ bias' = [bias EXCEPT ![l] = FoldBnHook(l).module_bias]
            /\ ret' = [op |-> "fold_bn", layer |-> l, ok |-> TRUE,
                       res |-> FoldBnHook(l).res]
       ELSE /\ ret' = [op |-> "fold_bn", layer |-> l, ok |-> FALSE]
            /\ UNCHANGED <<weight, bias>>
    /\ UNCHANGED <<cfg, bn, attrs, buffer, bound_model, evaluator, bound,
                   hooks, compressed, wrapped, pc, err, cursor,
                   quant_result_conf, weight0, bias0, seen, trace>>

\* quantize_weight(wrapper): returns None and touches nothing
quantize_weight(l) ==
    /\ HookCalled(l, "weight")
    /\ ret' = [op |-> "quantize_weight", layer |-> l, res |-> "None"]
    /\ UNCHANGED pipeline

FoldBn == \E l \in Layers : fold_bn(l)

QuantizeWeight == \E l \in Layers : quantize_weight(l)

-----------------------------------------------------------------------------
(* export_model                                                            *)

\* _del_simulated_attr
del_attr_list ==
    {"old_weight", "steps", "weight_qmax", "weight_qmin", "input_qmax",
     "input_qmin", "output_qmax", "output_qmin", "weight_scale",
     "weight_zero_point", "input_scale", "input_zero_point", "output_scale",
     "output_zero_point", "old_bn_weight", "old_bn_bias"}

_del_simulated_attr_Keep(a) == a

_del_simulated_attr(a) == DelAttrs(a, del_attr_list)

\* the tensor an attribute registered from <field>.data holds: the live one
OldBn(l, name) ==
    IF attrs[l][name].alias_of = "weight" THEN weight[l] ELSE bias[l]

HasAnyScale(a) ==
    HasAttr(a, "weight_scale") \/ HasAttr(a, "input_scale")
        \/ HasAttr(a, "output_scale")

Reconstruct_WrongSign(a, t, qbound) ==
    Mul(a[t \o "_scale"], FromInt(a[t \o qbound] + a[t \o "_zero_point"]))

\* scale * (qbound - zero_point)
Reconstruct(a, t, qbound) ==
    Mul(a[t \o "_scale"], FromInt(a[t \o qbound] - a[t \o "_zero_point"]))

\* lines 351-365: the record of one layer
CalibrationEntry(a) ==
    LET w == IF HasAttr(a, "weight_scale")
             THEN [weight_bits |-> a["layer_quant_setting"]["weight"].bits,
                   weight_scale |-> a["weight_scale"],
                   weight_zero_point |-> a["weight_zero_point"],
                   min_weight |-> Reconstruct(a, "weight", "_qmin"),
                   max_weight |-> Reconstruct(a, "weight", "_qmax")]
             ELSE NoAttrs
        i == IF HasAttr(a, "input_scale")
             THEN [input_bits |-> a["layer_quant_setting"]["input"].bits,
                   tracked_min_input |-> Reconstruct(a, "input", "_qmin"),
                   tracked_max_input |-> Reconstruct(a, "input", "_qmax")]
             ELSE NoAttrs
        o == IF HasAttr(a, "output_scale")
             THEN [output_bits |-> a["layer_quant_setting"]["output"].bits,
                   tracked_min_output |-> Reconstruct(a, "output", "_qmin"),
                   tracked_max_output |-> Reconstruct(a, "output", "_qmax")]
             ELSE NoAttrs
    IN  Merge(Merge(w, i), o)

\* export_model: the model is unwrapped; per module the archived weight and
\* bias are copied back, the layer's record is built and its attributes are
\* deleted (a module without any *_scale attribute is skipped before that)
export_model ==
    /\ pc \in {"ready", "done", "failed"} /\ ret = NoCall
    /\ wrapped' = FALSE
    /\ weight' = [l \in Layers |->
                    IF HasAttr(attrs[l], "old_bn_weight")
                    THEN OldBn(l, "old_bn_weight") ELSE weight[l]]
    /\ bias' = [l \in Layers |->
                    IF HasAttr(attrs[l], "old_bn_weight")
                    THEN OldBn(l, "old_bn_bias") ELSE bias[l]]
    /\ attrs' = [l \in Layers |->
                    IF HasAnyScale(attrs[l])
                    THEN _del_simulated_attr(attrs[l]) ELSE attrs[l]]
    /\ ret' = [op |-> "export_model",
               res |-> [l \in {k \in Layers : HasAnyScale(attrs[k])} |->
                            CalibrationEntry(attrs[l])]]
    /\ UNCHANGED <<cfg, bn, buffer, bound_model, evaluator, bound, hooks,
                   compressed, pc, err, cursor, quant_result_conf, weight0,
                   bias0, seen, trace>>

Next ==
    \/ PtqQuantizer__init__ \/ ClearReference \/ CompressNotConfigured
    \/ OneshotFoldBn \/ BindModel \/ PrepareDataCollectors \/ Collect
    \/ CollectDone \/ SolveLayer \/ CompressFinish
    \/ QuantizeInput \/ QuantizeOutput \/ FoldBn \/ QuantizeWeight
    \/ export_model \/ Return

Spec == Init /\ [][Next]_vars

-----------------------------------------------------------------------------
(* Specification of the two pure functions: one call per behaviour, on     *)
(* every input of the bounded input space, its arguments and result        *)
(* recorded in ret                                                         *)

QInit == Init

CallCalculateQparams ==
    /\ ret = NoCall
    /\ UNCHANGED pipeline
    /\ \E vmin \in Vals, vmax \in Vals, bits \in Bits,
       qscheme \in QuantScheme, qdtype \in QuantDtype :
        LET r == get_min_max_value(bits, qdtype)
        IN
            ret' = [op |-> "calculate_qparams", vmin |-> vmin, vmax |-> vmax,
                    qmin |-> r.qmin, qmax |-> r.qmax, qscheme |-> qscheme,
                    qdtype |-> qdtype,
                    res |-> calculate_qparams(vmin, vmax, r.qmin, r.qmax,
                                              qscheme, qdtype)]

CallQuantize ==
    /\ ret = NoCall
    /\ UNCHANGED pipeline
    /\ \E x \in Vals, scale \in Scales, zero_point \in QInts,
          qmin \in QInts, qmax \in QInts :
        /\ qmin <= qmax
        /\ ret' = [op |-> "_quantize", x |-> x, scale |-> scale,
                   zero_point |-> zero_point, qmin |-> qmin, qmax |-> qmax,
                   res |-> _quantize(x, scale, zero_point, qmin, qmax)]

QNext == CallCalculateQparams \/ CallQuantize

QSpec == QInit /\ [][QNext]_vars

-----------------------------------------------------------------------------
(* Properties of calculate_qparams and _quantize (checked under QSpec)     *)

Solved == ret.op = "calculate_qparams"

SymmetricCase ==
    /\ Solved /\ ret.qscheme \in SymmetricSchemes
    /\ Leq(ret.vmin, Zero) /\ Leq(Zero, ret.vmax)

ExpectedSymmetricZeroPoint ==
    IF ret.qdtype = "INT" THEN 0 ELSE ret.qmax \div 2

UnflooredSymmetricScale ==
    Div(RMax(ret.vmax, Neg(ret.vmin)), Rat(ret.qmax - ret.qmin, 2))

\* C2 as stated: for vmin <= 0 <= vmax the symmetric scale is
\* max(vmax, -vmin) / ((qmax - qmin) / 2), and zero_point is 0 (INT) or
\* qmax // 2 (UINT).
C2_Original ==
    SymmetricCase =>
        /\ ret.res.ok
        /\ ret.res.scale = UnflooredSymmetricScale
        /\ ret.res.zero_point = ExpectedSymmetricZeroPoint

\* C2 (amended): for vmin <= 0 <= vmax the symmetric scale is
\* max(vmax, -vmin) / ((qmax - qmin) / 2) floored at float32 eps (so it is
\* eps, not 0, for vmin = vmax = 0), and zero_point is 0 (INT) or qmax // 2
\* (UINT).
C2_SymmetricSolve ==
    SymmetricCase =>
        /\ ret.res.ok
        /\ ret.res.scale = RMax(UnflooredSymmetricScale, eps)
        /\ ret.res.zero_point = ExpectedSymmetricZeroPoint

\* a symmetric unsigned solve of a range around 0 whose scale is above eps
C2_Witness ==
    /\ SymmetricCase /\ ret.qdtype = "UINT"
    /\ Lt(ret.vmin, Zero) /\ Lt(Zero, ret.vmax)
    /\ ret.res.ok /\ Lt(eps, ret.res.scale)
    /\ ret.res.zero_point = ret.qmax \div 2 /\ ret.res.zero_point > 0

\* qmin - round(v / scale) for the returned scale
qminMinusRound(v) == ret.qmin - Round(Div(v, ret.res.scale))

AffineCase ==
    /\ Solved /\ ret.qscheme \notin SymmetricSchemes
    /\ Leq(ret.vmin, ret.vmax)

\* scale * (qmin - zero_point), the minimum reconstructed from the result
ReconstructedMin ==
    Mul(ret.res.scale, FromInt(ret.qmin - ret.res.zero_point))

\* C3: for vmin <= vmax the affine zero_point is
\* qmin - round(min(vmin, 0) / scale) clamped into [qmin, qmax], and
\* scale * (qmin - zero_point) differs from min(vmin, 0) by less than one
\* scale unit.
C3_AffineSolve ==
    AffineCase =>
        LET vm == RMin(ret.vmin, Zero)
            zp == qminMinusRound(vm)
            d  == Sub(ReconstructedMin, vm)
        IN  /\ ret.res.ok
            /\ ret.res.zero_point = ClampInt(zp, ret.qmin, ret.qmax)
            /\ Lt(d, ret.res.scale) /\ Lt(Neg(ret.res.scale), d)

\* an affine solve whose minimum is negative and is not a multiple of the
\* scale: the reconstruction is inexact
C3_Witness ==
    /\ AffineCase /\ Lt(ret.vmin, Zero) /\ ret.res.ok
    /\ ret.res.zero_point > ret.qmin
    /\ ReconstructedMin # ret.vmin

\* C4: calculate_qparams called with vmin > vmax fails with an error and
\* returns no (scale, zero_point) pair.
C4_InvalidRangeFails ==
    (Solved /\ Lt(ret.vmax, ret.vmin)) =>
        /\ ~ret.res.ok
        /\ ret.res.error = "InvalidRangeError"
        /\ DOMAIN ret.res \cap {"scale", "zero_point"} = {}

\* the solver was called with vmin > vmax and failed
C4_Witness ==
    /\ Solved /\ Lt(ret.vmax, ret.vmin) /\ ~ret.res.ok

\* C5: fake-quantization is idempotent: quantizing an already
\* fake-quantized value with the same parameters returns it unchanged.
C5_QuantizeIdempotent ==
    ret.op = "_quantize" =>
        _quantize(ret.res, ret.scale, ret.zero_point, ret.qmin, ret.qmax)
            = ret.res

\* a fake-quantization that moved its argument (by rounding or clamping)
\* with a nonzero zero point
C5_Witness ==
    /\ ret.op = "_quantize" /\ ret.res # ret.x
    /\ ret.zero_point # 0 /\ ret.qmin < ret.qmax

-----------------------------------------------------------------------------
(* Properties of the collector, the hooks and compress (checked under Spec) *)

\* the minimum / maximum of a set of observed values; +inf / -inf if empty
SetMin(S) ==
    IF S = {} THEN PosInf ELSE CHOOSE a \in S : \A b \in S : Leq(a, b)

SetMax(S) ==
    IF S = {} THEN NegInf ELSE CHOOSE a \in S : \A b \in S : Leq(b, a)

RunningRangeExact ==
    \A l \in Layers :
        buffer[l] # <<>> =>
            /\ collect_input(l) =>
                /\ buffer[l][1] = SetMin(seen[l].input)
                /\ buffer[l][2] = SetMax(seen[l].input)
            /\ collect_output(l) =>
                /\ buffer[l][3] = SetMin(seen[l].output)
                /\ buffer[l][4] = SetMax(seen[l].output)

RangeOnlyWidens ==
    \A l \in Layers :
        (buffer[l] # <<>> /\ buffer'[l] # <<>>) =>
            /\ Leq(buffer'[l][1], buffer[l][1])
            /\ Leq(buffer[l][2], buffer'[l][2])
            /\ Leq(buffer'[l][3], buffer[l][3])
            /\ Leq(buffer[l][4], buffer'[l][4])

\* C6: after any sequence of collector invocations each tracked running
\* minimum (maximum) is the minimum (maximum) over all non-empty batches
\* observed so far, and no step raises a running minimum or lowers a running
\* maximum.
C6_RunningMinMax == []RunningRangeExact /\ [][RangeOnlyWidens]_vars

\* a layer whose input range was widened on both sides over several batches
C6_Witness ==
    \E l \in Layers :
        /\ buffer[l] # <<>> /\ collect_input(l)
        /\ seen[l].input = CalVals
        /\ buffer[l][1] = FromInt(-1) /\ buffer[l][2] = FromInt(2)

\* C7: a collector invocation whose input tuple does not hold exactly one
\* tensor fails with an error and leaves the range buffer unchanged.
C7_BadInputTupleFails ==
    [][(ret'.op = "collect_maxmin" /\ ret = NoCall /\ ret'.ninputs # 1) =>
          /\ ~ret'.ok
          /\ pc' = "failed" /\ err' = "UnsupportedLayerShapeError"
          /\ buffer' = buffer]_vars

\* an invocation with two input tensors failed on a layer whose buffer
\* already held a collected range
C7_Witness ==
    /\ ret.op = "collect_maxmin" /\ ret.ninputs = 2 /\ ~ret.ok
    /\ pc = "failed"
    /\ buffer[ret.layer] # FreshBuffer

HookReturned == ret.op \in {"quantize_input", "quantize_output"}

HookType == IF ret.op = "quantize_input" THEN "input" ELSE "output"

\* C8: while compressed is false (the calibration pass included)
\* quantize_input and quantize_output return their argument unchanged; when
\* compressed is true they return its fake-quantization under the layer's
\* stored scale, zero_point, qmin and qmax of that quant type.
C8_HooksFollowCompressed ==
    HookReturned =>
        LET a == attrs[ret.layer]
            t == HookType
        IN  IF compressed
            THEN ret.res = _quantize(ret.arg, a[t \o "_scale"],
                                     a[t \o "_zero_point"], a[t \o "_qmin"],
                                     a[t \o "_qmax"])
            ELSE ret.res = ret.arg

\* after compress, quantize_output changed the value it was given
C8_Witness ==
    /\ ret.op = "quantize_output" /\ compressed
    /\ ret.res # ret.arg

\* a pass-through call of quantize_input inside the calibration pass
C8_WitnessCalibrating ==
    /\ ret.op = "quantize_input" /\ pc = "calibrating" /\ ret.res = ret.arg

IsPrefix(s, t) == Len(s) <= Len(t) /\ \A i \in DOMAIN s : s[i] = t[i]

\* the steps of a complete compress, in the order of its statements
CompressSteps ==
    <<"fold", "bind", "calibrate", "calibrated">>
        \o [i \in DOMAIN LayerSeq |-> "solve"]
        \o <<"compressed", "unbind">>

AllSolvedAndStored ==
    \A l \in Layers : \A t \in cfg[l].quant_types :
        /\ l \in DOMAIN quant_result_conf
        /\ t \in DOMAIN quant_result_conf[l]
        /\ wrapped =>
            /\ attrs[l][t \o "_scale"] = quant_result_conf[l][t].scale
            /\ attrs[l][t \o "_zero_point"]
                   = quant_result_conf[l][t].zero_point

\* C9: compress folds, binds, calibrates, solves each layer and only then
\* sets compressed; nothing is solved before the calibration pass is over;
\* compressed implies every active quant type of every layer was solved and
\* stored; a failed compress leaves compressed false.
C9_CompressOrder ==
    /\ IsPrefix(trace, CompressSteps)
    /\ DOMAIN quant_result_conf # {} => Len(trace) >= 4
    /\ compressed => (pc = "done" /\ trace = CompressSteps
                      /\ AllSolvedAndStored)
    /\ pc = "failed" => ~compressed

\* a completed compress that solved all three quant types of a layer
C9_Witness ==
    /\ compressed /\ wrapped /\ trace = CompressSteps
    /\ \E l \in Layers : DOMAIN quant_result_conf[l] = QuantTypes

\* C10: for a layer with a batch-norm, after fold, compress and
\* export_model the layer's weight and bias are the original pre-fold ones.
C10_Original ==
    (pc = "done" /\ ~wrapped) =>
        \A l \in Layers :
            bn[l].present => (weight[l] = weight0[l] /\ bias[l] = bias0[l])

-----------------------------------------------------------------------------
(* export_model                                                            *)

ExportReturned == ret.op = "export_model"

\* C11: export_model called before compress has completed (compressed is
\* false) fails with an error instead of returning a calibration record.
C11_Original ==
    (ExportReturned /\ ~compressed) => "error" \in DOMAIN ret

TransientAttrs ==
    del_attr_list \cup {"layer_quant_setting", "old_bn_weight", "old_bn_bias"}

\* C12: after export_model returns no layer carries a transient attribute
\* (buffers, layer_quant_setting, old_bn_weight and old_bn_bias), layers
\* with an archive but no active quant type included.
C12_Original ==
    ExportReturned =>
        \A l \in Layers : DOMAIN attrs[l] \cap TransientAttrs = {}

\* C13: an export_model call that follows an export which deleted a layer's
\* attributes returns no entry for that layer and leaves weight and bias
\* as they are.
C13_ReExportIsNoOp ==
    [][(ret = NoCall /\ ret'.op = "export_model") =>
        \A l \in Layers :
            (~wrapped /\ cfg[l].quant_types # {}) =>
                /\ l \notin DOMAIN ret'.res
                /\ weight'[l] = weight[l]
                /\ bias'[l] = bias[l]]_vars

\* a second export after a completed compress of a model with a folded and
\* quantized layer: the record it returns is empty
C13_Witness ==
    /\ ExportReturned /\ compressed
    /\ DOMAIN ret.res = {}
    /\ \E l \in Layers : bn[l].present /\ "weight" \in cfg[l].quant_types

-----------------------------------------------------------------------------
(* Failing preconditions of compress and of the constructor                *)

\* nothing compress does has happened: no fold, no weight overwrite, no
\* collector buffer, no binding of the evaluator, nothing solved
CompressUntouched ==
    /\ weight = weight0 /\ bias = bias0
    /\ buffer = [l \in Layers |-> <<>>]
    /\ hooks = {} /\ ~bound
    /\ trace = <<>> /\ quant_result_conf = NoAttrs
    /\ \A l \in Layers : ~HasAttr(attrs[l], "old_bn_weight")
    /\ wrapped => attrs = [l \in Layers |-> PrepareBuffers(cfg[l])]

\* C14: compress invoked while the bound model or the evaluator is null
\* fails with NotConfiguredError before any fold, weight overwrite, buffer
\* update or binding of the evaluator, and compressed stays false.
C14_NotConfiguredFailsFirst ==
    (pc \notin {"new", "init_failed"} /\ ~(bound_model /\ evaluator)) =>
        /\ pc \in {"ready", "failed"}
        /\ pc = "failed" => err = "NotConfiguredError"
        /\ ~compressed
        /\ CompressUntouched

\* compress has failed on a quantizer without evaluator whose model has a
\* batch-norm to fold
C14_Witness ==
    /\ pc = "failed" /\ err = "NotConfiguredError" /\ ~evaluator
    /\ wrapped /\ \E l \in Layers : bn[l].present

\* C15: constructing the quantizer with op_folding enabled while the
\* evaluator's get_dummy_input() returns null fails with
\* MissingDummyInputError before any layer is wrapped, any buffer attached
\* or any weight modified.
C15_MissingDummyInputFails ==
    /\ (ret.op = "__init__" /\ ret.op_folding /\ ~ret.dummy_input) =>
            pc = "init_failed"
    /\ pc = "init_failed" =>
        /\ err = "MissingDummyInputError"
        /\ ~wrapped
        /\ attrs = [l \in Layers |-> NoAttrs]
        /\ weight = weight0 /\ bias = bias0
        /\ ~bound_model /\ ~evaluator /\ ~compressed

\* the constructor has failed for want of a dummy input
C15_Witness ==
    /\ pc = "init_failed"
    /\ ret.op = "__init__" /\ ret.op_folding /\ ~ret.dummy_input

-----------------------------------------------------------------------------
(* Quant types the config does not name                                    *)

Constructed == pc \notin {"new", "init_failed"}

BufferNames(t) ==
    {t \o "_qmax", t \o "_qmin", t \o "_scale", t \o "_zero_point"}

ExportKeys(t) ==
    IF t = "weight"
    THEN {"weight_bits", "weight_scale", "weight_zero_point", "min_weight",
          "max_weight"}
    ELSE {t \o "_bits", "tracked_min_" \o t, "tracked_max_" \o t}

\* the weight compress leaves on a layer it does not quantize
UnquantizedWeight(l) ==
    IF bn[l].present /\ Len(trace) >= 1
    THEN _fold_bn(bn[l], weight0[l], bias0[l]).weight
    ELSE weight0[l]

Skipped(l, t) ==
    /\ DOMAIN attrs[l] \cap BufferNames(t) = {}
    /\ l \in DOMAIN quant_result_conf => t \notin DOMAIN quant_result_conf[l]
    /\ t = "weight" => weight[l] = UnquantizedWeight(l)
    /\ (t = "input" /\ buffer[l] # <<>>) =>
            (buffer[l][1] = PosInf /\ buffer[l][2] = NegInf)
    /\ (t = "output" /\ buffer[l] # <<>>) =>
            (buffer[l][3] = PosInf /\ buffer[l][4] = NegInf)
    /\ (ExportReturned /\ l \in DOMAIN ret.res) =>
            DOMAIN ret.res[l] \cap ExportKeys(t) = {}
    /\ (ret.op = "compress" /\ l \in DOMAIN ret.res) =>
            t \notin DOMAIN ret.res[l]

CollectorOnlyIfTracked(l) ==
    LET tracked == cfg[l].quant_types \cap {"input", "output"} # {}
    IN  /\ l \in hooks => tracked
        /\ buffer[l] # <<>> => tracked
        /\ pc = "calibrating" => (tracked => l \in hooks)

\* C16: a quant type the layer's config does not name is skipped at every
\* stage: no buffer is attached for it, a collector is attached only if
\* input or output is active and tracks only the active ones, compress
\* solves and records nothing for it (and leaves the weight alone when
\* weight is not active), and export emits no key for it.
C16_AbsentTypeSkipped ==
    Constructed =>
        \A l \in Layers :
            /\ CollectorOnlyIfTracked(l)
            /\ \A t \in QuantTypes \ cfg[l].quant_types : Skipped(l, t)

\* the export of a compressed model one layer of which quantizes weight and
\* input but not output, the other nothing at all
C16_Witness ==
    /\ ExportReturned /\ compressed
    /\ \E l \in DOMAIN ret.res : cfg[l].quant_types = {"weight", "input"}
    /\ \E l \in Layers : cfg[l].quant_types = {} /\ l \notin DOMAIN ret.res

-----------------------------------------------------------------------------
(* The range export reconstructs for an affine input or output             *)

AffineSchemes == QuantScheme \ SymmetricSchemes

\* layer l, type t: an affine input or output in the record a completed
\* compress exports
ExportedAffine(l, t) ==
    /\ ExportReturned /\ compressed
    /\ l \in DOMAIN ret.res
    /\ t \in cfg[l].quant_types \cap {"input", "output"}
    /\ cfg[l].quant_scheme \in AffineSchemes

\* the calibrated range of type t of layer l, widened to hold zero
CalMin(l, t) == RMin(buffer[l][IF t = "input" THEN 1 ELSE 3], Zero)

CalMax(l, t) == RMax(buffer[l][IF t = "input" THEN 2 ELSE 4], Zero)

Within(x, y, d) == Leq(Sub(x, y), d) /\ Leq(Sub(y, x), d)

\* C17 as stated: the exported tracked_min and tracked_max of an affine
\* input or output each lie within one scale of the calibrated range
\* [min(vmin, 0), max(vmax, 0)].
C17_Original ==
    \A l \in Layers, t \in {"input", "output"} :
        ExportedAffine(l, t) =>
            LET scale == quant_result_conf[l][t].scale
            IN  /\ Within(ret.res[l]["tracked_min_" \o t], CalMin(l, t), scale)
                /\ Within(ret.res[l]["tracked_max_" \o t], CalMax(l, t), scale)

\* C17 (amended): tracked_min lies within one scale of min(vmin, 0) and
\* tracked_max = tracked_min + scale * (qmax - qmin); tracked_max lies
\* within one scale of max(vmax, 0) whenever the range is wide enough for
\* the scale not to be raised to eps, (max(vmax,0) - min(vmin,0)) /
\* (qmax - qmin) >= eps; for a narrower range (the all-zero one included)
\* the scale is eps.
C17_AffineReconstruction ==
    \A l \in Layers, t \in {"input", "output"} :
        ExportedAffine(l, t) =>
            LET q == quant_result_conf[l][t]
                tmin == ret.res[l]["tracked_min_" \o t]
                tmax == ret.res[l]["tracked_max_" \o t]
                width == FromInt(q.qmax - q.qmin)
                unfloored == Div(Sub(CalMax(l, t), CalMin(l, t)), width)
            IN  /\ Within(tmin, CalMin(l, t), q.scale)
                /\ tmax = Add(tmin, Mul(q.scale, width))
                /\ IF Leq(eps, unfloored)
                   THEN Within(tmax, CalMax(l, t), q.scale)
                   ELSE q.scale = eps

\* the export of a signed affine input calibrated to [-1, 2]
C17_Witness ==
    \E l \in Layers :
        /\ ExportedAffine(l, "input")
        /\ cfg[l].quant_dtype = "INT"
        /\ buffer[l][1] = FromInt(-1) /\ buffer[l][2] = FromInt(2)

-----------------------------------------------------------------------------
(* The weight-only, 8-bit, per-tensor symmetric, signed layer              *)

\* layer l quantizes only its weight, with 8 bits, PER_TENSOR_SYMMETRIC and
\* a signed dtype, and compress has solved it
WeightOnlySolved(l) ==
    /\ cfg[l] = Config({"weight"}, 8, "PER_TENSOR_SYMMETRIC", "INT")
    /\ l \in DOMAIN quant_result_conf
    /\ "weight" \in DOMAIN quant_result_conf[l]

\* the largest absolute value of the weight compress quantizes
MaxAbsWeight(l) ==
    LET w == UnquantizedWeight(l)
    IN  RMax(Neg(TMin(w)), TMax(w))

\* every weight is within scale/2 of its value before fake-quantization
WeightsWithinHalfScale(l) ==
    LET w == UnquantizedWeight(l)
        half == Div(quant_result_conf[l]["weight"].scale, FromInt(2))
    IN  \A i \in 1..Len(w) : Within(weight[l][i], w[i], half)

\* C18 as stated: such a layer gets qmin = -128, qmax = 127, zero_point = 0
\* and scale = max|w| / 127, and every weight moves by at most scale/2.
C18_Original ==
    \A l \in Layers :
        WeightOnlySolved(l) =>
            LET q == quant_result_conf[l]["weight"]
            IN  /\ q.qmin = -128 /\ q.qmax = 127
                /\ q.zero_point = 0
                /\ q.scale = Div(MaxAbsWeight(l), FromInt(127))
                /\ WeightsWithinHalfScale(l)

\* C18 (amended): such a layer gets qmin = -128, qmax = 127, zero_point = 0
\* and scale = max(max|w| / ((qmax - qmin) / 2), eps) = max(max|w| / 127.5,
\* eps), and every weight moves by at most scale/2.
C18_WeightOnlySymmetric ==
    \A l \in Layers :
        WeightOnlySolved(l) =>
            LET q == quant_result_conf[l]["weight"]
            IN  /\ q.qmin = -128 /\ q.qmax = 127
                /\ q.zero_point = 0
                /\ q.scale = RMax(Div(MaxAbsWeight(l), Rat(255, 2)), eps)
                /\ WeightsWithinHalfScale(l)

\* compress has completed on such a layer with weights [-2, 1, 0.5]
C18_Witness ==
    \E l \in Layers :
        /\ WeightOnlySolved(l) /\ compressed
        /\ ~bn[l].present /\ weight0[l] = SomeWeight
        /\ quant_result_conf[l]["weight"].scale = Rat(4, 255)

-----------------------------------------------------------------------------
(* The one-shot batch-norm fold and the weight hooks                       *)

\* the bias of a layer with a batch-norm is the once-folded one from the
\* fold step of compress on, the original one before; compress folds once
FoldedOnce ==
    /\ Cardinality({i \in 1..Len(trace) : trace[i] = "fold"}) <= 1
    /\ \A l \in Layers :
        bias[l] = IF bn[l].present /\ Len(trace) >= 1
                  THEN _fold_bn(bn[l], weight0[l], bias0[l]).bias
                  ELSE bias0[l]

\* a fold_bn or quantize_weight invocation changes no weight, bias or
\* buffer, and fold_bn returns the weight and bias as they are
WeightHooksChangeNothing ==
    (ret = NoCall /\ ret'.op \in {"fold_bn", "quantize_weight"}) =>
        /\ weight' = weight /\ bias' = bias
        /\ attrs' = attrs /\ buffer' = buffer
        /\ (ret'.op = "fold_bn" /\ ret'.ok) =>
                ret'.res = <<weight[ret'.layer], bias[ret'.layer]>>

\* C19: the batch-norm fold is applied exactly once per compress call and
\* never in a forward pass: fold_bn and quantize_weight invocations, before
\* or after compress, leave every weight, bias and buffer unchanged, and
\* fold_bn returns the layer's current weight and bias.
C19_FoldOnlyInCompress == []FoldedOnce /\ [][WeightHooksChangeNothing]_vars

\* fold_bn has returned for a folded layer of a compressed model
C19_Witness ==
    /\ ret.op = "fold_bn" /\ ret.ok /\ compressed
    /\ bn[ret.layer].present
    /\ ret.res = <<weight[ret.layer], bias[ret.layer]>>
    /\ bias[ret.layer] # bias0[ret.layer]

-----------------------------------------------------------------------------
(* What a collector invocation may touch                                   *)

\* the input (n = 1) or output (n = 3) accumulators of layer l change
AccChanged(l, n) ==
    buffer'[l][n] # buffer[l][n] \/ buffer'[l][n + 1] # buffer[l][n + 1]

CollectorFrame ==
    (ret = NoCall /\ ret'.op = "collect_maxmin") =>
        LET l == ret'.layer
        IN  /\ AccChanged(l, 1) =>
                /\ "input" \in cfg[l].quant_types
                /\ ret'.ok /\ ret'.in_numel # 0
            /\ AccChanged(l, 3) =>
                /\ "output" \in cfg[l].quant_types
                /\ ret'.ok /\ ret'.out_numel # 0
            /\ \A k \in Layers \ {l} : buffer'[k] = buffer[k]
            /\ weight' = weight /\ bias' = bias /\ attrs' = attrs
            /\ ret'.res = "None"

\* accumulators no non-empty batch was folded into hold +inf and -inf
UntouchedAccumulators ==
    \A l \in Layers :
        buffer[l] # <<>> =>
            /\ seen[l].input = {} =>
                    (buffer[l][1] = PosInf /\ buffer[l][2] = NegInf)
            /\ seen[l].output = {} =>
                    (buffer[l][3] = PosInf /\ buffer[l][4] = NegInf)

\* C20: a collector invocation modifies the input accumulators only if
\* input tracking is enabled and the input tensor is non-empty, the output
\* accumulators only if output tracking is enabled and the output tensor is
\* non-empty; otherwise they keep their previous value (initially +inf and
\* -inf); the invocation hands nothing back to the forward pass.
C20_CollectorFrame == []UntouchedAccumulators /\ [][CollectorFrame]_vars

\* on a layer that tracks both, an invocation with an empty input and a
\* non-empty output: the output accumulators moved, the input ones did not
C20_Witness ==
    /\ ret.op = "collect_maxmin" /\ ret.ok
    /\ cfg[ret.layer].quant_types = QuantTypes
    /\ ret.in_numel = 0 /\ ret.out_numel # 0
    /\ buffer[ret.layer][1] = PosInf /\ buffer[ret.layer][2] = NegInf
    /\ buffer[ret.layer][3] # PosInf /\ buffer[ret.layer][4] # NegInf

-----------------------------------------------------------------------------
(* How compress ends                                                       *)

\* compress has returned or has raised
CompressEnded == pc \in {"done", "failed"}

\* C21: whenever compress ends, a failure of the calibration pass or of the
\* parameter solving included, the evaluator is unbound from the model and
\* the collector hooks are unregistered: no execution of compress ends with
\* the evaluator still bound.
C21_Original ==
    CompressEnded => (~bound /\ hooks = {})

\* one iteration of the solving loop, on layer LayerSeq[cursor]
SolveStep ==
    /\ pc = "solving" /\ ret = NoCall /\ cursor <= Len(LayerSeq)
    /\ (pc' # pc \/ cursor' # cursor)

\* the calibration pass delivered no non-empty batch to the active input
\* or output of layer l
Starved(l, t) ==
    /\ t \in cfg[l].quant_types
    /\ IF t = "input" THEN seen[l].input = {} ELSE seen[l].output = {}

\* the accumulators of type t of layer l are the ones the collector began
\* with
StillInfinite(l, t) ==
    LET n == IF t = "input" THEN 1 ELSE 3
    IN  buffer[l][n] = PosInf /\ buffer[l][n + 1] = NegInf

\* what compress has already done when it fails on LayerSeq[cursor]: every
\* batch-norm is folded and archived, every earlier layer that quantizes
\* its weight holds the fake-quantized weight
EarlierWorkApplied ==
    /\ \A k \in Layers :
        bn[k].present =>
            /\ bias'[k] = _fold_bn(bn[k], weight0[k], bias0[k]).bias
            /\ HasAttr(attrs'[k], "old_bn_weight")
    /\ \A i \in 1..(cursor - 1) :
        LET k == LayerSeq[i]
        IN  "weight" \in cfg[k].quant_types =>
                LET q == quant_result_conf'[k]["weight"]
                IN  weight'[k] = QuantizeTensor(UnquantizedWeight(k),
                                                q.scale, q.zero_point,
                                                q.qmin, q.qmax)

StarvedLayerFails ==
    \A t \in {"input", "output"} :
        LET l == LayerSeq[cursor]
        IN  (SolveStep /\ Starved(l, t)
                /\ (t = "output" => ~Starved(l, "input"))) =>
                /\ StillInfinite(l, t)
                /\ pc' = "failed" /\ err' = "InvalidRangeError"
                /\ ~compressed'
                /\ attrs'[l][t \o "_scale"] = FromInt(1)
                /\ attrs'[l][t \o "_zero_point"] = 0
                /\ t \notin DOMAIN quant_result_conf'[l]
                /\ EarlierWorkApplied

\* C22: if the calibration pass delivers no non-empty batch to a layer with
\* input or output quantization active, its accumulators are still
\* (+inf, -inf) when compress reads them and compress fails at the solver's
\* vmin <= vmax precondition instead of storing parameters; the batch-norm
\* folds and the weight overwrites of earlier layers are applied by then
\* and compressed is (and stays) false.
C22_EmptyCalibrationFails ==
    /\ [](err = "InvalidRangeError" => (pc = "failed" /\ ~compressed))
    /\ [][StarvedLayerFails]_vars

\* compress failed on the second layer, which saw no batch, after folding
\* and fake-quantizing the weight of the first
C22_Witness ==
    /\ pc = "failed" /\ err = "InvalidRangeError" /\ cursor = 2
    /\ seen[LayerSeq[2]].input = {}
    /\ "input" \in cfg[LayerSeq[2]].quant_types
    /\ bn[LayerSeq[1]].present
    /\ "weight" \in DOMAIN quant_result_conf[LayerSeq[1]]
    /\ weight[LayerSeq[1]] # weight0[LayerSeq[1]]
    /\ bound

=============================================================================
